---- MODULE Spec2Model ----
(***************************************************************************)
(* Model of bib_seer.py: for every title of a bibliography, search Google  *)
(* Scholar through SerpAPI, follow the "cited by" link of the first hit,   *)
(* count the citing papers in a map, rank them and print a TSV report.     *)
(*                                                                         *)
(* JSON objects are records whose DOMAIN is the set of keys present, JSON  *)
(* arrays are sequences, strings that norm_title reads are sequences of    *)
(* one-character strings.  The insertion-ordered dict all_citers is the    *)
(* sequence of its items in insertion order.                               *)
(***************************************************************************)
EXTENDS Integers, Sequences, FiniteSets, TLC

\* ------------------------------------------------------------------ bounds
MaxTitles == 2      \* longest bibliography explored
MaxEntries == 2     \* longest organic_results list of an expansion response
MaxLen == 3         \* longest string handed to norm_title on its own

\* ------------------------------------------------------- program constants
TitleCap == 100000          \* titles[:100000]
CountWeight == 1000000      \* 1e6 in the sort key

\* --------------------------------------------------------------- norm_title
UpperLetters == <<"A","B","C","D","E","F","G","H","I","J","K","L","M",
                  "N","O","P","Q","R","S","T","U","V","W","X","Y","Z">>
LowerLetters == <<"a","b","c","d","e","f","g","h","i","j","k","l","m",
                  "n","o","p","q","r","s","t","u","v","w","x","y","z">>
Digits == {"0","1","2","3","4","5","6","7","8","9"}

Range(f) == {f[x] : x \in DOMAIN f}

\* str.lower() on one character
Lower(c) ==
  IF \E k \in 1..26 : UpperLetters[k] = c
    THEN LowerLetters[CHOOSE k \in 1..26 : UpperLetters[k] = c]
    ELSE c

\* the characters the pattern [^0-9a-z] does not match
Kept(c) == c \in Digits \cup Range(LowerLetters)

\* variant: the lower() call left out
NormNoLower(title) == SelectSeq(title, Kept)

\* re.sub('[^0-9a-z]+', "", title.lower())
norm_title(title) ==
  SelectSeq([k \in 1..Len(title) |-> Lower(title[k])], Kept)

\* ------------------------------------------------------------ get_cited_by
EmptyDict == [x \in {} |-> x]

\* paper.get("inline_links", {}).get("cited_by", {})
get_cited_by(paper) ==
  IF "inline_links" \in DOMAIN paper
    THEN IF "cited_by" \in DOMAIN paper.inline_links
           THEN paper.inline_links.cited_by
           ELSE EmptyDict
    ELSE EmptyDict

\* truth value of a dict: non-empty
Truthy(d) == DOMAIN d # {}

\* get_cited_by(p).get("total") or 0
TotalOf(paper) ==
  LET cb == get_cited_by(paper)
  IN IF "total" \in DOMAIN cb THEN cb.total ELSE 0

\* --------------------------------------------------------------- the inputs
\* bibliography titles: one that normalizes to "ab", one that normalizes to ""
BibTitles == { <<"A","b">>, <<"-">> }

SeqsUpTo(S, n) == UNION {[1..m -> S] : m \in 0..n}

\* first organic results of a search response
ResPlain  == [result_id |-> "r0"]
ResNoLink == [inline_links |-> [cited_by |-> [total |-> 5]]]
ResCited  == [inline_links |->
                [cited_by |-> [total |-> 5, serpapi_scholar_link |-> "L"]]]

SearchResponses ==
  { [search_metadata |-> "ok"],
    [search_metadata |-> "ok", organic_results |-> <<>>],
    [search_metadata |-> "ok", organic_results |-> <<ResPlain, ResCited>>],
    [search_metadata |-> "ok", organic_results |-> <<ResNoLink>>],
    [search_metadata |-> "ok", organic_results |-> <<ResCited>>] }

\* entries of an expansion response
EntA   == [link |-> "a.com", title |-> <<"A","B","!">>]
EntA5  == [link |-> "a.com", title |-> <<"c","1">>,
           inline_links |-> [cited_by |-> [total |-> 2000000]]]
EntId  == [result_id |-> "abc123"]
EntBare == [title |-> <<"c","1">>]

Entries == {EntA, EntA5, EntId, EntBare}

ExpandResponses ==
  { [search_metadata |-> "ok"] } \cup
  { [search_metadata |-> "ok", organic_results |-> es] :
      es \in SeqsUpTo(Entries, MaxEntries) }

\* "No link found (id: %s)" % (res2["result_id"])
NoLinkKey(id) == "No link found (id: " \o id \o ")"

HasKey(res2) == "link" \in DOMAIN res2 \/ "result_id" \in DOMAIN res2

\* lines 66-69: the key of an entry that has one
KeyOf(res2) ==
  IF "link" \in DOMAIN res2 THEN res2.link ELSE NoLinkKey(res2.result_id)

Keys == {KeyOf(e) : e \in {e \in Entries : HasKey(e)}}

\* the keys an expansion response lists
KeysIn(doc) ==
  IF "organic_results" \in DOMAIN doc
    THEN {KeyOf(doc.organic_results[k]) :
            k \in {k \in 1..Len(doc.organic_results) :
                     HasKey(doc.organic_results[k])}}
    ELSE {}

\* ---------------------------------------------------------------- the state
VARIABLES
  titles,          \* get_titles_from_bibtex(sys.argv[1])
  norm_titles,     \* {norm_title(t) for t in titles}
  pc,              \* position of the single control thread
  i,               \* index of the title the for loop is at
  res,             \* last search response (json.loads result)
  cite_res,        \* last expansion response
  j,               \* index of res2 in cite_res["organic_results"]
  all_citers,      \* the defaultdict, as its items in insertion order
  all_citers_list, \* the list find_citers_from_titles returns
  r,               \* index of the report loop
  out,             \* lines written to standard output
  reqlog,          \* requests handed to urlopen, in order
  surfaced,        \* history: key -> the titles whose expansion listed it
  exc,             \* the unhandled exception that ended the run, or "none"
  nt_in, nt_out, nt_calls   \* norm_title on its own: argument, result, calls

mvars == <<titles, norm_titles, pc, i, res, cite_res, j, all_citers,
           all_citers_list, r, out, reqlog, surfaced, exc>>
nvars == <<nt_in, nt_out, nt_calls>>
vars == <<titles, norm_titles, pc, i, res, cite_res, j, all_citers,
          all_citers_list, r, out, reqlog, surfaced, exc,
          nt_in, nt_out, nt_calls>>

NoResponse == [search_metadata |-> "none"]

Min(a, b) == IF a < b THEN a ELSE b

\* titles[:100000]
LoopTitles == SubSeq(titles, 1, Min(Len(titles), TitleCap))

Init ==
  /\ titles \in SeqsUpTo(BibTitles, MaxTitles)
  /\ norm_titles = {norm_title(titles[k]) : k \in 1..Len(titles)}
  /\ pc = IF Len(titles) = 0 THEN "rank" ELSE "search"
  /\ i = 1
  /\ res = NoResponse
  /\ cite_res = NoResponse
  /\ j = 1
  /\ all_citers = <<>>
  /\ all_citers_list = <<>>
  /\ r = 1
  /\ out = <<>>
  /\ reqlog = <<>>
  /\ surfaced = [k \in Keys |-> {}]
  /\ exc = "none"
  /\ nt_in = <<>>
  /\ nt_out = <<>>
  /\ nt_calls = 0

\* the for loop moves to the next title, or falls through to the sort
NextTitle ==
  IF i < Len(LoopTitles)
    THEN /\ i' = i + 1
         /\ pc' = "search"
    ELSE /\ i' = i
         /\ pc' = "rank"

\* an exception nobody catches ends the process
Raise(e) ==
  /\ exc' = e
  /\ pc' = "aborted"
  /\ i' = i

\* line 52: urlopen(api_url) for the current title
SearchRequest ==
  /\ pc = "search"
  /\ reqlog' = Append(reqlog, [kind |-> "search", idx |-> i])
  /\ pc' = "await_search"
  /\ UNCHANGED <<titles, norm_titles, i, res, cite_res, j, all_citers,
                 all_citers_list, r, out, surfaced, exc>>
  /\ UNCHANGED nvars

\* variant: a failed search is skipped and the loop goes on
SearchFailsContinue ==
  /\ pc = "await_search"
  /\ exc' = "fetch"
  /\ NextTitle
  /\ UNCHANGED <<titles, norm_titles, res, cite_res, j, all_citers,
                 all_citers_list, r, out, reqlog, surfaced>>
  /\ UNCHANGED nvars

\* lines 52-53: urlopen, read or json.loads raises
SearchFails ==
  /\ pc = "await_search"
  /\ Raise("fetch")
  /\ UNCHANGED <<titles, norm_titles, res, cite_res, j, all_citers,
                 all_citers_list, r, out, reqlog, surfaced>>
  /\ UNCHANGED nvars

\* lines 53-62: the search response is parsed and examined
SearchResponse ==
  /\ pc = "await_search"
  /\ \E doc \in SearchResponses :
       /\ res' = doc
       /\ IF "organic_results" \in DOMAIN doc /\ Len(doc.organic_results) > 0
            THEN LET first_result == doc.organic_results[1]
                 IN IF Truthy(get_cited_by(first_result))
                      THEN IF "serpapi_scholar_link"
                                 \in DOMAIN get_cited_by(first_result)
                             THEN /\ out' = Append(out,
                                        [kind |-> "trace",
                                         link |-> get_cited_by(first_result)
                                                    .serpapi_scholar_link])
                                  /\ reqlog' = Append(reqlog,
                                        [kind |-> "expand", idx |-> i])
                                  /\ pc' = "await_expand"
                                  /\ UNCHANGED <<i, exc>>
                             ELSE \* KeyError: 'serpapi_scholar_link'
                                  /\ Raise("KeyError")
                                  /\ UNCHANGED <<out, reqlog>>
                      ELSE /\ NextTitle
                           /\ UNCHANGED <<out, reqlog, exc>>
            ELSE /\ NextTitle
                 /\ UNCHANGED <<out, reqlog, exc>>
  /\ UNCHANGED <<titles, norm_titles, cite_res, j, all_citers,
                 all_citers_list, r, surfaced>>
  /\ UNCHANGED nvars

\* lines 62-63: the expansion request raises
ExpandFails ==
  /\ pc = "await_expand"
  /\ Raise("fetch")
  /\ UNCHANGED <<titles, norm_titles, res, cite_res, j, all_citers,
                 all_citers_list, r, out, reqlog, surfaced>>
  /\ UNCHANGED nvars

\* lines 63-65: the expansion response is parsed, the fold loop is entered
ExpandResponse ==
  /\ pc = "await_expand"
  /\ \E doc \in ExpandResponses :
       /\ cite_res' = doc
       /\ surfaced' = [k \in Keys |->
                          IF k \in KeysIn(doc) THEN surfaced[k] \cup {titles[i]}
                          ELSE surfaced[k]]
       /\ j' = 1
       /\ IF "organic_results" \in DOMAIN doc /\ Len(doc.organic_results) > 0
            THEN /\ pc' = "fold"
                 /\ i' = i
            ELSE NextTitle
  /\ UNCHANGED <<titles, norm_titles, res, all_citers, all_citers_list, r,
                 out, reqlog, exc>>
  /\ UNCHANGED nvars

\* position of a key in the dict, 0 when it is not there
IndexOf(d, key) ==
  IF \E k \in 1..Len(d) : d[k].key = key
    THEN CHOOSE k \in 1..Len(d) : d[k].key = key
    ELSE 0

\* defaultdict(lambda: (0, None))
NonePaper == [none |-> "None"]
DefaultEntry == [count |-> 0, paper |-> NonePaper]

\* all_citers[key] read through the defaultdict
Lookup(d, key) ==
  IF IndexOf(d, key) = 0
    THEN DefaultEntry
    ELSE [count |-> d[IndexOf(d, key)].count, paper |-> d[IndexOf(d, key)].paper]

\* all_citers[key] = (count, paper): a new key goes to the end, an old one
\* keeps its place
Store(d, key, count, paper) ==
  IF IndexOf(d, key) = 0
    THEN Append(d, [key |-> key, count |-> count, paper |-> paper])
    ELSE [d EXCEPT ![IndexOf(d, key)] =
            [key |-> key, count |-> count, paper |-> paper]]

\* variant: the record of the first hit is kept
BumpKeepFirst(d, key, res2) ==
  Store(d, key, Lookup(d, key).count + 1,
        IF IndexOf(d, key) = 0 THEN res2 ELSE Lookup(d, key).paper)

\* all_citers[paper_link] = (all_citers[paper_link][0] + 1, res2)
Bump(d, key, res2) == Store(d, key, Lookup(d, key).count + 1, res2)

\* lines 65-70: one iteration of the fold loop
FoldStep ==
  /\ pc = "fold"
  /\ j <= Len(cite_res.organic_results)
  /\ LET res2 == cite_res.organic_results[j]
     IN IF HasKey(res2)
          THEN /\ all_citers' = Bump(all_citers, KeyOf(res2), res2)
               /\ j' = j + 1
               /\ IF j = Len(cite_res.organic_results)
                    THEN NextTitle
                    ELSE UNCHANGED <<pc, i>>
               /\ exc' = exc
          ELSE \* KeyError: 'result_id'
               /\ Raise("KeyError")
               /\ UNCHANGED <<all_citers, j>>
  /\ UNCHANGED <<titles, norm_titles, res, cite_res, all_citers_list, r,
                 out, reqlog, surfaced>>
  /\ UNCHANGED nvars

\* the key the list is sorted on
SortKey(x) == CountWeight * x.count + TotalOf(x.paper)

\* variant: equal keys come out in reverse order (sort ascending, reverse)
InsertDescUnstable(sorted, x) ==
  LET n == Cardinality({k \in 1..Len(sorted) : SortKey(sorted[k]) > SortKey(x)})
  IN SubSeq(sorted, 1, n) \o <<x>> \o SubSeq(sorted, n + 1, Len(sorted))

\* x goes behind every element whose key is not smaller: what a stable
\* sort with reverse=True does to the elements taken in their old order
InsertDesc(sorted, x) ==
  LET n == Cardinality({k \in 1..Len(sorted) : SortKey(sorted[k]) >= SortKey(x)})
  IN SubSeq(sorted, 1, n) \o <<x>> \o SubSeq(sorted, n + 1, Len(sorted))

RECURSIVE SortDesc(_)
SortDesc(s) ==
  IF s = <<>> THEN <<>>
  ELSE InsertDesc(SortDesc(SubSeq(s, 1, Len(s) - 1)), s[Len(s)])

\* lines 72-75: list(all_citers.items()), sort, return
Rank ==
  /\ pc = "rank"
  /\ all_citers_list' = SortDesc(all_citers)
  /\ pc' = "header"
  /\ UNCHANGED <<titles, norm_titles, i, res, cite_res, j, all_citers, r,
                 out, reqlog, surfaced, exc>>
  /\ UNCHANGED nvars

\* lines 88-91
PrintHeader ==
  /\ pc = "header"
  /\ out' = Append(out, [kind |-> "header"])
  /\ r' = 1
  /\ pc' = IF Len(all_citers_list) = 0 THEN "done" ELSE "report"
  /\ UNCHANGED <<titles, norm_titles, i, res, cite_res, j, all_citers,
                 all_citers_list, reqlog, surfaced, exc>>
  /\ UNCHANGED nvars

\* paper_info.get("title", "")
TitleOf(paper_info) ==
  IF "title" \in DOMAIN paper_info THEN paper_info.title ELSE <<>>

\* the line "%d\t%d\t%s\t%s" % (count, total, link, title)
Row(x) == [kind |-> "row", count |-> x.count, total |-> TotalOf(x.paper),
           link |-> x.key, title |-> TitleOf(x.paper)]

\* variant: the title is compared as it is, not normalized
ReportRowRawTitle ==
  /\ pc = "report"
  /\ r <= Len(all_citers_list)
  /\ LET x == all_citers_list[r]
     IN out' = IF TitleOf(x.paper) \notin Range(titles)
                 THEN Append(out, Row(x))
                 ELSE out
  /\ r' = r + 1
  /\ pc' = IF r = Len(all_citers_list) THEN "done" ELSE "report"
  /\ UNCHANGED <<titles, norm_titles, i, res, cite_res, j, all_citers,
                 all_citers_list, reqlog, surfaced, exc>>
  /\ UNCHANGED nvars

\* lines 92-98: one iteration of the report loop
ReportRow ==
  /\ pc = "report"
  /\ r <= Len(all_citers_list)
  /\ LET x == all_citers_list[r]
     IN out' = IF norm_title(TitleOf(x.paper)) \notin norm_titles
                 THEN Append(out, Row(x))
                 ELSE out
  /\ r' = r + 1
  /\ pc' = IF r = Len(all_citers_list) THEN "done" ELSE "report"
  /\ UNCHANGED <<titles, norm_titles, i, res, cite_res, j, all_citers,
                 all_citers_list, reqlog, surfaced, exc>>
  /\ UNCHANGED nvars

Next ==
  \/ SearchRequest
  \/ SearchFails
  \/ SearchResponse
  \/ ExpandFails
  \/ ExpandResponse
  \/ FoldStep
  \/ Rank
  \/ PrintHeader
  \/ ReportRow

Spec == Init /\ [][Next]_vars

\* -------------------------------------------------- norm_title on its own
Alphabet == {"A", "a", "Z", "z", "0", "9", "-", " "}
Punct == {"-", " "}

\* the other case of a letter of the alphabet
SwapCase(c) ==
  CASE c = "A" -> "a" [] c = "a" -> "A" [] c = "Z" -> "z" [] c = "z" -> "Z"
    [] OTHER -> c

\* the strings one edit away: a letter's case flipped, a punctuation
\* character or space inserted, one removed
Variants(s) ==
  {[s EXCEPT ![p] = SwapCase(s[p])] : p \in 1..Len(s)}
  \cup {SubSeq(s, 1, p) \o <<c>> \o SubSeq(s, p + 1, Len(s)) :
          p \in (IF Len(s) < MaxLen THEN 0..Len(s) ELSE {}), c \in Punct}
  \cup {SubSeq(s, 1, p - 1) \o SubSeq(s, p + 1, Len(s)) :
          p \in {q \in 1..Len(s) : s[q] \in Punct}}

NormInit ==
  /\ nt_in \in SeqsUpTo(Alphabet, MaxLen)
  /\ nt_out = <<>>
  /\ nt_calls = 0
  /\ titles = <<>>
  /\ norm_titles = {}
  /\ pc = "norm"
  /\ i = 1
  /\ res = NoResponse
  /\ cite_res = NoResponse
  /\ j = 1
  /\ all_citers = <<>>
  /\ all_citers_list = <<>>
  /\ r = 1
  /\ out = <<>>
  /\ reqlog = <<>>
  /\ surfaced = [k \in Keys |-> {}]
  /\ exc = "none"

\* norm_title(title), then norm_title of what it returned
NormCall ==
  /\ pc = "norm"
  /\ nt_calls < 2
  /\ nt_out' = norm_title(IF nt_calls = 0 THEN nt_in ELSE nt_out)
  /\ nt_calls' = nt_calls + 1
  /\ nt_in' = nt_in
  /\ UNCHANGED mvars

\* norm_title of a string that differs in case and punctuation only
NormVariant ==
  /\ pc = "norm"
  /\ nt_calls >= 1
  /\ \E v \in Variants(nt_in) :
       /\ nt_in' = v
       /\ nt_out' = norm_title(v)
  /\ nt_calls' = nt_calls
  /\ UNCHANGED mvars

NormNext == NormCall \/ NormVariant

NormSpec == NormInit /\ [][NormNext]_vars

TypeOK == pc \in {"search", "await_search", "await_expand", "fold", "rank",
                  "header", "report", "done", "aborted", "norm"}

\* ------------------------------------------------------------- properties
Rows == SelectSeq(out, LAMBDA l : l.kind = "row")
HeaderPrinted == \E k \in 1..Len(out) : out[k].kind = "header"
LoopOver == pc \in {"rank", "header", "report", "done"}
Ranked == pc \in {"header", "report", "done"}

\* C1: the hit count stored for a key never exceeds the number of input
\* titles.
C1_HitCountAtMostTitles ==
  \A k \in 1..Len(all_citers) : all_citers[k].count <= Len(titles)

\* C2: once the loop over the titles is over, the hit count of every key
\* equals the number of distinct titles whose expansion response listed it.
C2_HitCountIsDistinctTitles ==
  LoopOver =>
    \A k \in 1..Len(all_citers) :
      all_citers[k].count = Cardinality(surfaced[all_citers[k].key])

LexGE(c1, t1, c2, t2) == c1 > c2 \/ (c1 = c2 /\ t1 >= t2)

\* C3: in the returned list an earlier entry's (hit_count, total_citations)
\* is lexicographically >= a later entry's.
C3_LexOrder ==
  Ranked =>
    \A a, b \in 1..Len(all_citers_list) :
      a < b => LexGE(all_citers_list[a].count, TotalOf(all_citers_list[a].paper),
                     all_citers_list[b].count, TotalOf(all_citers_list[b].paper))

NotInBib(x) == norm_title(TitleOf(x.paper)) \notin norm_titles
RowsOf(list) == LET kept == SelectSeq(list, NotInBib)
                IN [k \in 1..Len(kept) |-> Row(kept[k])]

\* C4: the data rows are exactly the ranked entries whose normalized title
\* is not a normalized bibliography title, once each and in rank order.
C4_ReportFiltersBibTitles ==
  /\ \A k \in 1..Len(Rows) : norm_title(Rows[k].title) \notin norm_titles
  /\ pc = "report" => Rows = RowsOf(SubSeq(all_citers_list, 1, r - 1))
  /\ pc = "done" => Rows = RowsOf(all_citers_list)

C4_Witness ==
  /\ pc = "done"
  /\ Len(Rows) >= 1
  /\ \E k \in 1..Len(all_citers_list) :
       /\ ~NotInBib(all_citers_list[k])
       /\ TitleOf(all_citers_list[k].paper) \notin Range(titles)

\* C5: a response that was fetched and parsed never ends the run, whatever
\* optional fields it lacks.
C5_MissingFieldsNeverAbort == exc # "KeyError"

AlnumLower == {"0","1","2","3","4","5","6","7","8","9",
               "a","b","c","d","e","f","g","h","i","j","k","l","m",
               "n","o","p","q","r","s","t","u","v","w","x","y","z"}

\* C6: the result of norm_title has only characters of [0-9a-z], a second
\* norm_title leaves it as it is, and a string that differs in letter case
\* and non-alphanumeric characters only has the same result.
C6_NormIdempotent ==
  /\ [](nt_calls >= 1 => Range(nt_out) \subseteq AlnumLower)
  /\ [][nt_calls >= 1 => nt_out' = nt_out]_nvars

C6_Witness ==
  /\ nt_calls = 2
  /\ nt_out # <<>>
  /\ nt_out # nt_in

ExpandIssued ==
  /\ Len(reqlog') = Len(reqlog) + 1
  /\ reqlog'[Len(reqlog')].kind = "expand"
SearchIssued ==
  /\ Len(reqlog') = Len(reqlog) + 1
  /\ reqlog'[Len(reqlog')].kind = "search"
NumSearches == Cardinality({k \in 1..Len(reqlog) : reqlog[k].kind = "search"})
InFlight == pc \in {"await_search", "await_expand"}

\* C7: one search per title in input order with no request in flight; a
\* search response is followed by an expansion request if and only if it
\* has an organic result and the first one carries a non-empty cited-by
\* reference; the header is printed after the last request has completed.
C7_TwoStepSequential ==
  [][ /\ SearchIssued =>
           /\ ~InFlight
           /\ reqlog'[Len(reqlog')].idx = NumSearches + 1
      /\ (pc = "await_search" /\ exc' # "fetch") =>
           (ExpandIssued <=>
              /\ "organic_results" \in DOMAIN res'
              /\ Len(res'.organic_results) > 0
              /\ Truthy(get_cited_by(res'.organic_results[1])))
      /\ ExpandIssued => pc = "await_search"
      /\ (HeaderPrinted' /\ ~HeaderPrinted) =>
           /\ ~InFlight
           /\ NumSearches = Len(titles)
    ]_vars

\* C8: after a failed request no further request is issued and neither the
\* header nor a data row is printed.
C8_FetchFailureFatal ==
  /\ [](exc = "fetch" => ~HeaderPrinted /\ Rows = <<>>)
  /\ [][exc = "fetch" => reqlog' = reqlog /\ out' = out]_vars

C8_Witness ==
  /\ exc = "fetch"
  /\ i = 2
  /\ Len(all_citers) >= 1

SameRank(x, y) ==
  x.count = y.count /\ TotalOf(x.paper) = TotalOf(y.paper)

\* C9: entries with equal hit count and equal total-citation count are
\* returned in the order in which their keys entered the map.
C9_StableTies ==
  Ranked =>
    \A a, b \in 1..Len(all_citers_list) :
      (a < b /\ SameRank(all_citers_list[a], all_citers_list[b])) =>
        IndexOf(all_citers, all_citers_list[a].key)
          < IndexOf(all_citers, all_citers_list[b].key)

C9_Witness ==
  /\ Ranked
  /\ Len(all_citers_list) = 2
  /\ SameRank(all_citers_list[1], all_citers_list[2])
  /\ all_citers_list[1].count = 2

\* C10: every stored key has hit count >= 1 and a non-null record; a fold
\* step stores the entry it processed under that entry's key with the count
\* raised by one and leaves the other keys alone; no key is removed and no
\* count decreases.
C10_FoldInvariant ==
  /\ [](\A k \in 1..Len(all_citers) :
          /\ all_citers[k].count >= 1
          /\ all_citers[k].paper # NonePaper
          /\ all_citers[k].paper \in Entries)
  /\ [][ /\ Len(all_citers') >= Len(all_citers)
         /\ \A k \in 1..Len(all_citers) :
              /\ all_citers'[k].key = all_citers[k].key
              /\ all_citers'[k].count >= all_citers[k].count
         /\ all_citers' # all_citers =>
              /\ pc = "fold"
              /\ LET e == cite_res.organic_results[j]
                     n == IndexOf(all_citers', KeyOf(e))
                     o == IndexOf(all_citers, KeyOf(e))
                 IN /\ n # 0
                    /\ all_citers'[n].paper = e
                    /\ all_citers'[n].count =
                         (IF o = 0 THEN 0 ELSE all_citers[o].count) + 1
                    /\ \A k \in 1..Len(all_citers) :
                         k # n => all_citers'[k] = all_citers[k]
       ]_vars

C10_Witness ==
  /\ pc = "fold"
  /\ \E k \in 1..Len(all_citers) :
       /\ all_citers[k].count = 2
       /\ all_citers[k].paper = EntA
       /\ surfaced[all_citers[k].key] = {titles[1]}
       /\ i = 2
====
